---- MODULE Spec2Model ----
(***************************************************************************)
(* blockhash-accent-colors: the Hash Source Client (fetchBlockchain.js)    *)
(* and the Palette Derivation Engine (deriveColors, carried in             *)
(* cron_runner.js) as state machines.                                      *)
(*                                                                         *)
(* SpecFetch  : one call of fetchLatestBlockHash against a source whose    *)
(*              answer to every request is chosen freely.                  *)
(* SpecDerive : repeated calls of deriveColors over a bounded set of       *)
(*              digests, palette sizes and configurations.                 *)
(***************************************************************************)
EXTENDS Integers, Sequences, FiniteSets, TLC

VARIABLES
    \* ---- fetchBlockchain.js -------------------------------------------
    pc,            \* position of the one fetchLatestBlockHash call
    fetchConfig,   \* module-level `config` cache of fetchBlockchain.js
    attempt,       \* loop counter of fetchLatestBlockHash (line 110)
    innerAttempt,  \* `attempt` parameter of fetchWithRetry (line 41)
    requests,      \* HTTP requests issued so far by the call
    sleeps,        \* backoff delays waited so far by the call
    delay,         \* the delay most recently handed to sleep()
    sleeper,       \* which loop asked for that delay: "none", "inner", "outer"
    lastResp,      \* how the most recent HTTP request settled
    seen,          \* labels of everything the source has answered so far
    afterJson,     \* requests/sleeps counted when a body first parsed as JSON
    body,          \* the most recent result of response.json()
    result,        \* what the call returned or threw
    \* ---- deriveColors (cron_runner.js 172-453) -------------------------
    dpc,           \* "ready" between calls, "hashing" while sha256 is awaited
    deriveConfig,  \* module-level `config` cache of deriveColors
    clock,         \* wall clock read by new Date()
    calls,         \* number of deriveColors calls completed
    input,         \* parsedData of the call in progress
    digest,        \* fullHash of the call in progress
    output,        \* what the most recent call returned
    memo,          \* first output seen per (hash, configuration)
    \* ---- parseLedger.js ------------------------------------------------
    parseConfig,   \* module-level `config` cache of parseLedger.js
    rawData,       \* argument of the most recent parseLedger call
    parseResult,   \* what that call returned or threw
    \* ---- the process and inputs/config.json ----------------------------
    env,           \* "node", "browser", or "nodeDom" (Node with a global document)
    configFile,    \* version of the contents of inputs/config.json
    configCache,   \* per module: 0, or the version its `config` cache holds
    configReads,   \* successful reads of inputs/config.json by the process
    \* ---- publish.js (src/unnamed/part_000) ------------------------------
    pubPc,         \* position of the publishToFile call
    pubOptions,    \* per format: options.<format> !== false
    colorData,     \* "palette": has a palette array; "malformed": has none
    results,       \* the `results` object of publishToFile
    pubOutcome,    \* "none", "returned" or "thrown"
    mkdirResult,   \* how mkdir settled in the call: "none" until it has
    attempted,     \* formats handed to writeFile by the call, in order
    written,       \* formats whose writeFile has succeeded in the call
    \* ---- orchestrators: cron_runner.js 1-170, main.js, test_pipeline.js --
    orch,          \* which orchestrator the process runs: "cron", "main", "test"
    step,          \* what the run is waiting for
    started,       \* steps started in the current run, in order
    stepOut,       \* per step of the current run: how it ended
    runResult,     \* what the most recent runPipeline returned or threw
    exitCode,      \* process.exit code, -1 while the process runs
    retries,       \* options.retries of runPipelineSafe
    safeAttempt,   \* loop counter of runPipelineSafe (line 312)
    runs,          \* runPipeline invocations so far
    lastError,     \* message of the error runPipelineSafe caught last
    safeResult,    \* what runPipelineSafe returned
    \* ---- one deriveSingleColor call and the accent built from it ---------
    seg,           \* the six-digit window handed to deriveSingleColor
    segCfg,        \* config.colorDerivation of that call
    swatch,        \* what deriveSingleColor returned: <<>> until it has
    accentOf,      \* the accent deriveColors builds from that colour
    \* ---- two processes publishing into one output directory -------------
    racePc,        \* per run: position of its publishToFile call
    raceResults,   \* per run: the `results` object of its publishToFile
    files,         \* per output file: the run whose content it holds
    overlapped,    \* whether a run began publishing while the other was at it
    raceOrder,     \* the runs in the order their publishToFile calls began
    clashed        \* files that both runs were writing at the same moment

fetchVars == <<pc, fetchConfig, attempt, innerAttempt, requests, sleeps, delay,
               sleeper, lastResp, seen, afterJson, body, result>>
deriveVars == <<dpc, deriveConfig, clock, calls, input, digest, output, memo>>
parseVars == <<parseConfig, rawData, parseResult>>
envVars == <<env, configFile, configCache, configReads>>
pubVars == <<pubPc, pubOptions, colorData, results, pubOutcome, mkdirResult,
             attempted, written>>
pipeVars == <<orch, step, started, stepOut, runResult, exitCode, retries,
              safeAttempt, runs, lastError, safeResult>>
swatchVars == <<seg, segCfg, swatch, accentOf>>
raceVars == <<racePc, raceResults, files, overlapped, raceOrder, clashed>>
sideVars == <<swatchVars, raceVars>>
restVars == <<parseVars, envVars, pubVars, pipeVars, sideVars>>
vars == <<fetchVars, deriveVars, restVars>>

(***************************************************************************)
(* RETRY_CONFIG                                                            *)
(***************************************************************************)
maxRetries == 3
initialDelayMs == 1000
maxDelayMs == 10000
backoffMultiplier == 2

RECURSIVE Pow(_, _)
Pow(b, e) == IF e = 0 THEN 1 ELSE b * Pow(b, e - 1)

Min(a, b) == IF a <= b THEN a ELSE b
Max(a, b) == IF a >= b THEN a ELSE b

\* the spec's reading of the backoff: the exponent is the number of the attempt
\* that follows the delay
getBackoffDelayNext(a) ==
    Min(initialDelayMs * Pow(backoffMultiplier, a + 1), maxDelayMs)

\* getBackoffDelay(attempt): the argument is the number of the attempt that failed
getBackoffDelay(a) ==
    Min(initialDelayMs * Pow(backoffMultiplier, a), maxDelayMs)

(***************************************************************************)
(* What the source can answer.                                             *)
(***************************************************************************)
Statuses == {200, 404, 503}

Http(s) == [kind |-> "http", status |-> s]
NetworkError == [kind |-> "neterr", status |-> 0]
\* the AbortSignal fired: fetch() rejects with a TimeoutError
Timeout == [kind |-> "timeout", status |-> 0]
NoResp == [kind |-> "none", status |-> 0]

Outcomes == {Http(s) : s \in Statuses} \cup {NetworkError, Timeout}

\* response.ok
Ok(r) == r.kind = "http" /\ r.status >= 200 /\ r.status <= 299

Is4xx(r) == r.kind = "http" /\ r.status >= 400 /\ r.status <= 499

Label(r) ==
    IF r.kind = "http"
    THEN (IF r.status >= 500 THEN "5xx"
          ELSE IF r.status >= 400 THEN "4xx" ELSE "2xx")
    ELSE r.kind

(***************************************************************************)
(* JSON bodies.  A field that is missing is ABSENT; "" is the empty        *)
(* string, which JavaScript's || and if() treat like a missing one.        *)
(***************************************************************************)
ABSENT == "<absent>"
FieldChoice(v) == {ABSENT, "", v}

Truthy(v) == v # ABSENT /\ v # ""

\* element j of an array payload: an object with optional id / hash, a string,
\* or null.  Every value names the element it comes from.
ObjElem(j, i, h) == [kind |-> "object", id |-> i, hash |-> h, val |-> "elem" \o j]
StrElem(v) == [kind |-> "string", id |-> ABSENT, hash |-> ABSENT, val |-> v]
NullElem == [kind |-> "null", id |-> ABSENT, hash |-> ABSENT, val |-> ""]

Elems0 ==
    {ObjElem("0", i, h) : i \in FieldChoice("id0"), h \in FieldChoice("hash0")}
        \cup {StrElem("str0"), StrElem(""), NullElem}
Elems1 == {ObjElem("1", "id1", "hash1")}

Unparsable ==
    [kind |-> "unparsable", hash |-> ABSENT, id |-> ABSENT, blockHash |-> ABSENT,
     elems |-> <<>>]
JsonNull ==
    [kind |-> "null", hash |-> ABSENT, id |-> ABSENT, blockHash |-> ABSENT,
     elems |-> <<>>]
JsonString ==
    [kind |-> "string", hash |-> ABSENT, id |-> ABSENT, blockHash |-> ABSENT,
     elems |-> <<>>]
JsonObject(h, i, b) ==
    [kind |-> "object", hash |-> h, id |-> i, blockHash |-> b, elems |-> <<>>]
JsonArray(es) ==
    [kind |-> "array", hash |-> ABSENT, id |-> ABSENT, blockHash |-> ABSENT,
     elems |-> es]
NoBody ==
    [kind |-> "none", hash |-> ABSENT, id |-> ABSENT, blockHash |-> ABSENT,
     elems |-> <<>>]

Bodies ==
    {Unparsable, JsonNull, JsonString, JsonArray(<<>>)}
        \cup {JsonObject(h, i, b) :
                h \in FieldChoice("hash"), i \in FieldChoice("id"),
                b \in {ABSENT, "blockhash"}}
        \cup {JsonArray(<<e>>) : e \in Elems0}
        \cup {JsonArray(<<e, f>>) : e \in Elems0, f \in Elems1}

\* JavaScript values fetchLatestBlockHash can hand back
JsString(v) == [kind |-> "string", val |-> v]
JsNull == [kind |-> "null", val |-> ""]
JsObject(v) == [kind |-> "object", val |-> v]

Returned(v) == [outcome |-> "returned", value |-> v]
Thrown == [outcome |-> "thrown", value |-> JsNull]
NoResult == [outcome |-> "none", value |-> JsNull]

\* reading a property of null raises a TypeError inside the try block
RaisesTypeError(data) ==
    \/ data.kind = "null"
    \/ data.kind = "array" /\ Len(data.elems) > 0 /\ data.elems[1].kind = "null"

\* a variant that looks at hash before id in element 0 and at id in an object
ExtractHashHashFirst(data) ==
    IF data.kind = "array" /\ Len(data.elems) > 0
    THEN LET e == data.elems[1] IN
         IF Truthy(e.hash) THEN JsString(e.hash)
         ELSE IF Truthy(e.id) THEN JsString(e.id)
         ELSE IF e.kind = "string" THEN JsString(e.val)
         ELSE JsObject(e.val)
    ELSE IF Truthy(data.blockHash) THEN JsString(data.blockHash)
    ELSE IF Truthy(data.hash) THEN JsString(data.hash)
    ELSE IF Truthy(data.id) THEN JsString(data.id)
    ELSE JsNull

\* lines 128-138: data[0].id || data[0].hash || data[0] for a non-empty array,
\* else data.block?.hash, else data.hash, else the initial null
ExtractHash(data) ==
    IF data.kind = "array" /\ Len(data.elems) > 0
    THEN LET e == data.elems[1] IN
         IF Truthy(e.id) THEN JsString(e.id)
         ELSE IF Truthy(e.hash) THEN JsString(e.hash)
         ELSE IF e.kind = "string" THEN JsString(e.val)
         ELSE JsObject(e.val)
    ELSE IF Truthy(data.blockHash) THEN JsString(data.blockHash)
    ELSE IF Truthy(data.hash) THEN JsString(data.hash)
    ELSE JsNull

(***************************************************************************)
(* The two retry loops.                                                    *)
(***************************************************************************)
\* a fetchWithRetry that gives up on a timed-out attempt at once
InnerStepNoTimeoutRetry(r, a) ==
    IF r.kind = "http"
    THEN (IF r.status >= 500 /\ a < maxRetries THEN "retry" ELSE "return")
    ELSE (IF a < maxRetries /\ r.kind # "timeout" THEN "retry" ELSE "throw")

\* a fetchWithRetry whose tests read attempt <= maxRetries
InnerStepOneMore(r, a) ==
    IF r.kind = "http"
    THEN (IF r.status >= 500 /\ a <= maxRetries THEN "retry" ELSE "return")
    ELSE (IF a <= maxRetries THEN "retry" ELSE "throw")

\* fetchWithRetry, lines 42-67, once fetch() has settled with r on attempt a
InnerStep(r, a) ==
    IF r.kind = "http"
    THEN (IF r.status >= 500 /\ a < maxRetries THEN "retry" ELSE "return")
    ELSE (IF a < maxRetries THEN "retry" ELSE "throw")

\* lines 114-123: what fetchLatestBlockHash does with the response it got back
OuterStep(r, a) ==
    IF Ok(r) THEN "parse"
    ELSE IF r.status >= 500 /\ a < maxRetries THEN "continue"
    ELSE "throw"

\* a catch block that starts no further attempt
CatchStepGiveUp(a) == "exit"

\* lines 143-152: the catch block, then the loop's attempt++ and test
CatchStep(a) == IF a < maxRetries THEN "sleep" ELSE "exit"

\* where the call stands once the request of (outer a, inner i) settled with r
AfterFetch(r, a, i) ==
    LET inner == InnerStep(r, i)
        outer == IF inner = "return" THEN OuterStep(r, a) ELSE inner
    IN  CASE outer = "retry" ->
               [pc |-> "innerSleep", delay |-> getBackoffDelay(i), sleeper |-> "inner",
                result |-> NoResult]
          [] outer = "parse" ->
               [pc |-> "parsing", delay |-> delay, sleeper |-> sleeper,
                result |-> NoResult]
          [] outer = "continue" ->
               [pc |-> "outerSleep", delay |-> getBackoffDelay(a), sleeper |-> "outer",
                result |-> NoResult]
          [] OTHER ->
               IF CatchStep(a) = "sleep"
               THEN [pc |-> "outerSleep", delay |-> getBackoffDelay(a),
                     sleeper |-> "outer", result |-> NoResult]
               ELSE [pc |-> "done", delay |-> delay, sleeper |-> sleeper,
                     result |-> Thrown]

FetchIdle ==
    /\ pc = "idle" /\ fetchConfig = "unloaded"
    /\ attempt = 0 /\ innerAttempt = 0 /\ requests = 0 /\ sleeps = 0
    /\ delay = 0 /\ sleeper = "none" /\ lastResp = NoResp /\ seen = {}
    /\ afterJson = <<>> /\ body = NoBody /\ result = NoResult

\* fetchLatestBlockHash, lines 103-112: loadConfig, then the first request
StartCall ==
    /\ pc = "idle"
    /\ \/ /\ fetchConfig' = "loaded"
          /\ pc' = "fetching"
          /\ attempt' = 0
          /\ innerAttempt' = 0
          /\ requests' = requests + 1
          /\ UNCHANGED result
       \/ \* loadConfig rethrows (lines 93-96): no request is made
          /\ fetchConfig' = fetchConfig
          /\ pc' = "done"
          /\ result' = Thrown
          /\ UNCHANGED <<attempt, innerAttempt, requests>>
    /\ UNCHANGED <<sleeps, delay, sleeper, lastResp, seen, afterJson, body>>
    /\ UNCHANGED deriveVars
    /\ UNCHANGED restVars

\* `await fetch(...)` settles: a response, a network error or the 30 s deadline
FetchSettles ==
    /\ pc = "fetching"
    /\ \E r \in Outcomes :
         LET to == AfterFetch(r, attempt, innerAttempt) IN
         /\ lastResp' = r
         /\ seen' = seen \cup {Label(r)}
         /\ pc' = to.pc
         /\ delay' = to.delay
         /\ sleeper' = to.sleeper
         /\ result' = to.result
    /\ UNCHANGED <<fetchConfig, attempt, innerAttempt, requests, sleeps, afterJson, body>>
    /\ UNCHANGED deriveVars
    /\ UNCHANGED restVars

\* fetchWithRetry's sleep(delay) is over: the recursive call issues the next request
InnerWake ==
    /\ pc = "innerSleep"
    /\ innerAttempt' = innerAttempt + 1
    /\ requests' = requests + 1
    /\ sleeps' = sleeps + 1
    /\ pc' = "fetching"
    /\ UNCHANGED <<fetchConfig, attempt, delay, sleeper, lastResp, seen, afterJson,
                   body, result>>
    /\ UNCHANGED deriveVars
    /\ UNCHANGED restVars

\* fetchLatestBlockHash's sleep(delay) is over: attempt++ and a fresh fetchWithRetry
OuterWake ==
    /\ pc = "outerSleep"
    /\ attempt' = attempt + 1
    /\ innerAttempt' = 0
    /\ requests' = requests + 1
    /\ sleeps' = sleeps + 1
    /\ pc' = "fetching"
    /\ UNCHANGED <<fetchConfig, delay, sleeper, lastResp, seen, afterJson, body, result>>
    /\ UNCHANGED deriveVars
    /\ UNCHANGED restVars

\* a try block that refuses a payload it can extract no hash string from
TryBodyRejectNoHash(b) ==
    IF b = Unparsable \/ RaisesTypeError(b) \/ ExtractHash(b).kind # "string"
    THEN Thrown
    ELSE Returned(ExtractHash(b))

\* lines 125-141: response.json() rejects, a property read raises, or the
\* extracted value is returned as it is
TryBody(b) ==
    IF b = Unparsable \/ RaisesTypeError(b)
    THEN Thrown
    ELSE Returned(ExtractHash(b))

\* `await response.json()` settles, lines 125-151
JsonSettles ==
    /\ pc = "parsing"
    /\ \E b \in Bodies :
         /\ body' = b
         /\ seen' = seen \cup {IF b = Unparsable THEN "badjson" ELSE "json"}
         /\ afterJson' = IF b # Unparsable /\ afterJson = <<>>
                         THEN <<requests, sleeps>> ELSE afterJson
         /\ IF TryBody(b) = Thrown
            THEN IF CatchStep(attempt) = "sleep"
                 THEN /\ pc' = "outerSleep"
                      /\ delay' = getBackoffDelay(attempt)
                      /\ sleeper' = "outer"
                      /\ UNCHANGED result
                 ELSE /\ pc' = "done"
                      /\ result' = Thrown
                      /\ UNCHANGED <<delay, sleeper>>
            ELSE /\ pc' = "done"
                 /\ result' = TryBody(b)
                 /\ UNCHANGED <<delay, sleeper>>
    /\ UNCHANGED <<fetchConfig, attempt, innerAttempt, requests, sleeps, lastResp>>
    /\ UNCHANGED deriveVars
    /\ UNCHANGED restVars

(***************************************************************************)
(* deriveColors.  Hex strings are sequences of digit values 0..15; ranges  *)
(* of the configuration are held in percent (0.6 is 60), so that the       *)
(* arithmetic below is the exact value of the JavaScript expression.       *)
(***************************************************************************)
MaxPaletteSize == 12
MaxCalls == 3
MaxClock == 1

\* Math.round of the rational num/den (den > 0): halves go up
RoundDiv(num, den) == (2 * num + den) \div (2 * den)

Abs(x) == IF x < 0 THEN 0 - x ELSE x

\* String.prototype.substring(from, to) on a sequence: the end is clamped
Substring(str, from, to) == SubSeq(str, from + 1, Min(to, Len(str)))

\* parseInt(str, 16)
RECURSIVE ParseHex(_)
ParseHex(str) ==
    IF str = <<>> THEN 0
    ELSE 16 * ParseHex(SubSeq(str, 1, Len(str) - 1)) + str[Len(str)]

\* Number.prototype.toString(16) of a non-negative integer
RECURSIVE HexDigits(_)
HexDigits(n) == IF n < 16 THEN <<n>> ELSE Append(HexDigits(n \div 16), n % 16)

\* toHex of hslToHex, line 327: toString(16).padStart(2, '0'); "-" is held as -1
ToHex(n) ==
    LET d == IF n < 0 THEN <<-1>> \o HexDigits(0 - n) ELSE HexDigits(n)
    IN  IF Len(d) < 2 THEN <<0>> \o d ELSE d

\* a conversion that takes every hue to lie in the first 60-degree sector
hslToHexFirstSector(hsl) ==
    LET C == (100 - Abs(2 * hsl.l - 100)) * hsl.s
        X == 60 - Abs((hsl.h % 120) - 60)
        c == 30 * (C + 200 * hsl.l)
        x == C * X + 30 * (200 * hsl.l - C)
        z == 30 * (200 * hsl.l - C)
        ch(n) == ToHex(RoundDiv(255 * n, 600000))
    IN  ch(c) \o ch(x) \o ch(z)

\* hslToHex, lines 310-330.  With C = (100-|2l-100|)*s the chroma is C/10000,
\* x = C*X/600000 for X = 60-|h mod 120 - 60|, and m = (200l-C)/20000.
\* Channels are rounded from the exact value; where (n+m)*255 is exactly k+1/2
\* the double the code computes can fall just below it and round to k (1131 of
\* the 346921 triples with h in 0..360, s in 60..90, l in 40..70, always by 1).
hslToHex(hsl) ==
    LET h == hsl.h
        C == (100 - Abs(2 * hsl.l - 100)) * hsl.s
        X == 60 - Abs((h % 120) - 60)
        \* (n + m) as a numerator over 600000, for n = c, x, 0
        c == 30 * (C + 200 * hsl.l)
        x == C * X + 30 * (200 * hsl.l - C)
        z == 30 * (200 * hsl.l - C)
        rgb == IF h >= 0 /\ h < 60 THEN <<c, x, z>>
               ELSE IF h >= 60 /\ h < 120 THEN <<x, c, z>>
               ELSE IF h >= 120 /\ h < 180 THEN <<z, c, x>>
               ELSE IF h >= 180 /\ h < 240 THEN <<z, x, c>>
               ELSE IF h >= 240 /\ h < 300 THEN <<x, z, c>>
               ELSE <<c, z, x>>
        ch(n) == ToHex(RoundDiv(255 * n, 600000))
    IN  ch(rgb[1]) \o ch(rgb[2]) \o ch(rgb[3])

\* hslToCss, lines 263-265
hslToCss(hsl) == <<"hsl(", hsl.h, ", ", hsl.s, "%, ", hsl.l, "%)">>

DefaultSaturationRange == <<60, 90>>
DefaultLightnessRange == <<40, 70>>

\* a derivation that mixes the wall clock into the hue
deriveSingleColorClocked(hashSegment, cfg) ==
    LET hsl == [h |-> (RoundDiv(360 * ParseHex(Substring(hashSegment, 0, 3)), 4095)
                          + 30 * clock) % 361,
                s |-> 75, l |-> 50]
    IN  [hsl |-> hsl, css |-> hslToCss(hsl), hex |-> hslToHex(hsl)]

\* a derivation that cuts the fractions off (Math.floor) instead of rounding
deriveSingleColorFloored(hashSegment, cfg) ==
    LET satRange == IF cfg.saturationRange = <<>> THEN DefaultSaturationRange
                    ELSE cfg.saturationRange
        lightRange == IF cfg.lightnessRange = <<>> THEN DefaultLightnessRange
                      ELSE cfg.lightnessRange
        hueN == ParseHex(Substring(hashSegment, 0, 3))
        satN == ParseHex(Substring(hashSegment, 3, 5))
        lightN == ParseHex(Substring(hashSegment, 5, 6))
        hsl == [h |-> (360 * hueN) \div 4095,
                s |-> (255 * satRange[1] + satN * (satRange[2] - satRange[1]))
                          \div 255,
                l |-> (15 * lightRange[1]
                           + lightN * (lightRange[2] - lightRange[1])) \div 15]
    IN  [hsl |-> hsl, css |-> hslToCss(hsl), hex |-> hslToHex(hsl)]

\* deriveSingleColor, lines 273-303
deriveSingleColor(hashSegment, cfg) ==
    LET satRange == IF cfg.saturationRange = <<>> THEN DefaultSaturationRange
                    ELSE cfg.saturationRange
        lightRange == IF cfg.lightnessRange = <<>> THEN DefaultLightnessRange
                      ELSE cfg.lightnessRange
        hueN == ParseHex(Substring(hashSegment, 0, 3))
        satN == ParseHex(Substring(hashSegment, 3, 5))
        lightN == ParseHex(Substring(hashSegment, 5, 6))
        hsl == [h |-> RoundDiv(360 * hueN, 4095),
                s |-> RoundDiv(255 * satRange[1] + satN * (satRange[2] - satRange[1]),
                               255),
                l |-> RoundDiv(15 * lightRange[1]
                                   + lightN * (lightRange[2] - lightRange[1]), 15)]
    IN  [hsl |-> hsl, css |-> hslToCss(hsl), hex |-> hslToHex(hsl)]

\* sha256, lines 215-221: the digest is a fixed function of the input string,
\* 64 hex digits long.  The function itself is left uninterpreted: each input
\* has its own digest, spread over all sixteen digit values.
sha256(str) ==
    LET seed == ParseHex(str) + 7 * Len(str)
    IN  [j \in 1..64 |-> (seed * (j + 3) + j * j + (seed \div 16) * (j \div 5)) % 16]

\* the hashes parseLedger can hand over: missing, empty, and lowercase hex
NoHash == <<-1>>
Hashes == {NoHash, <<>>, <<0, 0, 13, 4, 10, 14>>, <<15, 15>>}
FalsyHash(h) == h = NoHash \/ h = <<>>

\* parsedData: absent altogether, or {hash, metadata}
Metadata == {0, 840000}
NoParsedData == [present |-> FALSE, hash |-> NoHash, metadata |-> 0]
ParsedData ==
    {NoParsedData} \cup [present : {TRUE}, hash : Hashes, metadata : Metadata]

\* cfg.colorDerivation as the file may hold it; paletteSize 0 and a range <<>>
\* stand for a missing key
Ranges ==
    {[saturationRange |-> <<>>, lightnessRange |-> <<>>],
     [saturationRange |-> <<0, 100>>, lightnessRange |-> <<20, 80>>]}
Configs ==
    {[paletteSize |-> n, saturationRange |-> r.saturationRange,
      lightnessRange |-> r.lightnessRange] : n \in 0..MaxPaletteSize, r \in Ranges}

\* cfg.colorDerivation?.paletteSize || 6, line 339
PaletteSize(cfg) == IF cfg.paletteSize = 0 THEN 6 ELSE cfg.paletteSize

NoColor == <<>>
EmptyDigest == <<>>

\* a window that wraps to the start of the digest, as the comment on line 365
\* announces
SegmentCyclic(fullHash, i) ==
    LET startIdx == (i * 6) % 64
    IN  [k \in 1..6 |-> fullHash[((startIdx + k - 1) % 64) + 1]]

\* lines 364-366: substring(startIdx % 64, startIdx % 64 + 6)
Segment(fullHash, i) ==
    LET startIdx == i * 6
    IN  Substring(fullHash, startIdx % 64, (startIdx % 64) + 6)

\* lines 360-376: the loop that fills the palette, from index i on
RECURSIVE BuildPalette(_, _, _, _, _)
BuildPalette(fullHash, hash, cfg, i, palette) ==
    IF i >= PaletteSize(cfg) THEN palette
    ELSE LET segment == Segment(fullHash, i)
             color == deriveSingleColor(segment, cfg)
         IN  BuildPalette(fullHash, hash, cfg, i + 1,
                 IF Len(segment) = 6
                 THEN Append(palette,
                             [index |-> i, hsl |-> color.hsl, css |-> color.css,
                              hex |-> color.hex,
                              fromHash |-> Substring(hash, 0, 8)])
                 ELSE palette)

\* an accent whose hue is not folded back into 0..359
AccentNoWrap(primaryColor) ==
    IF primaryColor = NoColor THEN NoColor
    ELSE LET p == primaryColor[1]
             hsl == [h |-> p.hsl.h + 180, s |-> p.hsl.s, l |-> p.hsl.l]
         IN  <<[hsl |-> hsl, css |-> hslToCss(hsl), hex |-> hslToHex(hsl)]>>

\* lines 378-390: the complementary accent of the primary colour
Accent(primaryColor) ==
    IF primaryColor = NoColor THEN NoColor
    ELSE LET p == primaryColor[1]
             accentHue == (p.hsl.h + 180) % 360
             hsl == [h |-> accentHue, s |-> p.hsl.s, l |-> p.hsl.l]
         IN  <<[hsl |-> hsl, css |-> hslToCss(hsl), hex |-> hslToHex(hsl)]>>

DeriveThrown ==
    [outcome |-> "thrown", palette |-> <<>>, primaryColor |-> NoColor,
     accentColor |-> NoColor, hasAccent |-> FALSE, hash |-> NoHash,
     metadata |-> 0, derivedAt |-> -1]

\* an empty-input branch that raises EmptyInput
EmptyResultThrows == DeriveThrown

\* lines 341-349: what deriveColors returns when there is no hash; the object
\* has no accentColor, metadata or derivedAt key
EmptyResult ==
    [outcome |-> "returned", palette |-> <<>>, primaryColor |-> NoColor,
     accentColor |-> NoColor, hasAccent |-> FALSE, hash |-> NoHash,
     metadata |-> 0, derivedAt |-> -1]

\* a result whose palette skips the first window for blocks above height 0
DeriveResultByHeight(parsedData, fullHash, cfg) ==
    LET from == IF parsedData.metadata = 0 THEN 0 ELSE 1
        palette == BuildPalette(fullHash, parsedData.hash, cfg, from, <<>>)
        primaryColor == IF palette = <<>> THEN NoColor ELSE <<palette[1]>>
    IN  [outcome |-> "returned", palette |-> palette,
         primaryColor |-> primaryColor, accentColor |-> Accent(primaryColor),
         hasAccent |-> TRUE, hash |-> parsedData.hash,
         metadata |-> parsedData.metadata, derivedAt |-> clock]

\* lines 351-402: the result for a hash whose digest is fullHash
DeriveResult(parsedData, fullHash, cfg) ==
    LET palette == BuildPalette(fullHash, parsedData.hash, cfg, 0, <<>>)
        primaryColor == IF palette = <<>> THEN NoColor ELSE <<palette[1]>>
    IN  [outcome |-> "returned", palette |-> palette,
         primaryColor |-> primaryColor, accentColor |-> Accent(primaryColor),
         hasAccent |-> TRUE, hash |-> parsedData.hash,
         metadata |-> parsedData.metadata, derivedAt |-> clock]

MemoKey(parsedData, cfg) == <<parsedData.hash, cfg>>

Remember(m, key, out) ==
    IF \E e \in m : e.key = key THEN m ELSE m \cup {[key |-> key, out |-> out]}

\* deriveColors is called, lines 337-357: loadConfig, the empty-input check, and
\* for a usable hash the start of sha256.  cfgs is what the configuration file
\* may hold when it is first read, limit the number of calls followed.
DeriveCallWith(cfgs, limit) ==
    /\ dpc = "ready"
    /\ calls < limit
    /\ \E parsedData \in ParsedData :
         /\ input' = parsedData
         /\ \/ \* loadConfig: the cached object, or the file read for the first time
               /\ \E cfg \in (IF deriveConfig = <<>> THEN cfgs
                              ELSE {deriveConfig[1]}) :
                    deriveConfig' = <<cfg>>
               /\ IF ~parsedData.present \/ FalsyHash(parsedData.hash)
                  THEN /\ output' = EmptyResult
                       /\ calls' = calls + 1
                       /\ dpc' = "ready"
                  ELSE /\ dpc' = "hashing"
                       /\ UNCHANGED <<output, calls>>
            \/ \* loadConfig rethrows a failed read, lines 204-207
               /\ deriveConfig = <<>>
               /\ deriveConfig' = deriveConfig
               /\ output' = DeriveThrown
               /\ calls' = calls + 1
               /\ dpc' = "ready"
    /\ UNCHANGED <<clock, digest, memo>>
    /\ UNCHANGED fetchVars
    /\ UNCHANGED restVars

DeriveCall == DeriveCallWith(Configs, MaxCalls)

\* crypto.subtle.digest settles with one of digests: the rest of deriveColors
\* runs, lines 357-402
DigestSettlesWith(digests) ==
    /\ dpc = "hashing"
    /\ \E fullHash \in digests :
         LET out == DeriveResult(input, fullHash, deriveConfig[1])
         IN  /\ digest' = fullHash
             /\ output' = out
             /\ memo' = Remember(memo, MemoKey(input, deriveConfig[1]), out)
    /\ calls' = calls + 1
    /\ dpc' = "ready"
    /\ UNCHANGED <<deriveConfig, clock, input>>
    /\ UNCHANGED fetchVars
    /\ UNCHANGED restVars

DigestSettles == DigestSettlesWith({sha256(input.hash)})

\* time passes between and during calls
Tick ==
    /\ clock < MaxClock
    /\ clock' = clock + 1
    /\ UNCHANGED <<dpc, deriveConfig, calls, input, digest, output, memo>>
    /\ UNCHANGED fetchVars
    /\ UNCHANGED restVars

DeriveIdle ==
    /\ dpc = "ready" /\ deriveConfig = <<>> /\ clock = 0 /\ calls = 0
    /\ input = NoParsedData /\ digest = EmptyDigest /\ output = DeriveThrown
    /\ memo = {}

(***************************************************************************)
(* parseLedger.js.  A string is a sequence of characters; a block is null,  *)
(* a string, or an object with optional hash, id and height.               *)
(***************************************************************************)
MaxHashLen == 3

Chars == {"0", "a", "F", "x", "G"}
Digits == {"0", "1", "2", "3", "4", "5", "6", "7", "8", "9"}
LowerHex == Digits \cup {"a", "b", "c", "d", "e", "f"}
UpperHex == {"A", "B", "C", "D", "E", "F"}

Strings == UNION {[1..n -> Chars] : n \in 0..MaxHashLen}

\* a property the object does not have, and the value null
NoField == <<"undefined">>
Null == <<"null">>
Falsy(v) == v = <<>> \/ v = NoField \/ v = Null

NullBlock ==
    [kind |-> "null", str |-> <<>>, hash |-> NoField, id |-> NoField, height |-> 0]
StrBlock(s) ==
    [kind |-> "string", str |-> s, hash |-> NoField, id |-> NoField, height |-> 0]
ObjBlock(h, i, n) ==
    [kind |-> "object", str |-> <<>>, hash |-> h, id |-> i, height |-> n]

\* !blockData
FalsyBlock(b) == b.kind = "null" \/ (b.kind = "string" /\ b.str = <<>>)

Single(b) == [isArray |-> FALSE, block |-> b, elems |-> <<>>]
Array(es) == [isArray |-> TRUE, block |-> NullBlock, elems |-> es]

Heights == {0, 840000}
Ids == {NoField, <<"a", "F">>, <<"x">>}
ArrayElems ==
    {NullBlock, StrBlock(<<"F", "0">>), ObjBlock(<<"a", "F">>, NoField, 840000),
     ObjBlock(<<"x", "0">>, NoField, 0), ObjBlock(NoField, <<"0">>, 840000)}
RawData ==
    {Single(NullBlock)}
    \cup {Single(StrBlock(s)) : s \in Strings}
    \cup {Single(ObjBlock(h, i, n)) :
            h \in Strings \cup {NoField}, i \in Ids, n \in Heights}
    \cup {Array(es) : es \in UNION {[1..n -> ArrayElems] : n \in 0..2}}

\* String.prototype.toLowerCase on one character
ToLower(c) ==
    CASE c = "A" -> "a" [] c = "B" -> "b" [] c = "C" -> "c" [] c = "D" -> "d"
      [] c = "E" -> "e" [] c = "F" -> "f" [] c = "G" -> "g" [] OTHER -> c
toLowerCase(s) == [k \in 1..Len(s) |-> ToLower(s[k])]

\* /^[a-fA-F0-9]+$/.test(hash), line 61
IsHex(s) ==
    /\ Len(s) > 0
    /\ \A k \in 1..Len(s) : s[k] \in LowerHex \cup UpperHex

InLowerHex(c) == c \in LowerHex

\* the candidate parseBlockHash picks, lines 49-58
Candidate(blockData) ==
    IF blockData.kind = "string" THEN blockData.str
    ELSE IF ~Falsy(blockData.hash) THEN blockData.hash
    ELSE IF ~Falsy(blockData.id) THEN blockData.id
    ELSE Null

\* a parseBlockHash that returns its candidate without validating it
parseBlockHashUnchecked(blockData) ==
    IF FalsyBlock(blockData) THEN Null
    ELSE IF ~Falsy(Candidate(blockData)) THEN Candidate(blockData) ELSE Null

\* parseBlockHash, lines 44-68
parseBlockHash(blockData) ==
    IF FalsyBlock(blockData) THEN Null
    ELSE LET hash == Candidate(blockData)
         IN  IF ~Falsy(hash) /\ IsHex(hash) THEN hash ELSE Null

\* parseBlockArray, lines 75-91
RECURSIVE parseBlockArray(_)
parseBlockArray(blocks) ==
    IF blocks = <<>> THEN <<>>
    ELSE LET hash == parseBlockHash(Head(blocks))
             rest == parseBlockArray(Tail(blocks))
         IN  IF ~Falsy(hash) THEN <<hash>> \o rest ELSE rest

\* normalizeHash, lines 99-104
normalizeHash(hash) ==
    IF Falsy(hash) THEN <<>>
    ELSE SelectSeq(toLowerCase(hash), InLowerHex)

\* extractBlockMetadata, lines 111-122: {} is <<>>, otherwise <<height>> with
\* 0 for null
extractBlockMetadata(blockData) ==
    IF FalsyBlock(blockData) \/ blockData.kind # "object" THEN <<>>
    ELSE <<blockData.height>>

ParseThrown ==
    [outcome |-> "thrown", hash |-> Null, hashes |-> <<>>, metadata |-> <<>>]

\* parseLedger after loadConfig, lines 132-169
ParseLedgerResult(raw) ==
    IF ~raw.isArray /\ FalsyBlock(raw.block)
    THEN [outcome |-> "returned", hash |-> Null, hashes |-> <<>>,
          metadata |-> <<>>]
    ELSE IF raw.isArray
    THEN LET hashes == parseBlockArray(raw.elems)
             hash == IF hashes = <<>> THEN Null ELSE hashes[1]
             metadata == IF raw.elems # <<>> /\ ~FalsyBlock(raw.elems[1])
                         THEN extractBlockMetadata(raw.elems[1]) ELSE <<>>
         IN  [outcome |-> "returned", hash |-> normalizeHash(hash),
              hashes |-> [k \in 1..Len(hashes) |-> normalizeHash(hashes[k])],
              metadata |-> metadata]
    ELSE LET hash == parseBlockHash(raw.block)
             hashes == IF ~Falsy(hash) THEN <<hash>> ELSE <<>>
         IN  [outcome |-> "returned", hash |-> normalizeHash(hash),
              hashes |-> [k \in 1..Len(hashes) |-> normalizeHash(hashes[k])],
              metadata |-> extractBlockMetadata(raw.block)]

NoParse ==
    [outcome |-> "none", hash |-> Null, hashes |-> <<>>, metadata |-> <<>>]

\* the parseLedger call on rawData, lines 129-170
ParseCall ==
    /\ parseResult = NoParse
    /\ \/ \* loadConfig reads the file
          /\ parseConfig' = "loaded"
          /\ parseResult' = ParseLedgerResult(rawData)
       \/ \* loadConfig rethrows a failed read, lines 33-36
          /\ parseConfig' = parseConfig
          /\ parseResult' = ParseThrown
    /\ UNCHANGED rawData
    /\ UNCHANGED <<sideVars, fetchVars, deriveVars, envVars, pubVars, pipeVars>>

\* no call yet; raw is the argument the call will be given
ParsePending(raw) ==
    /\ parseConfig = "unloaded"
    /\ rawData = raw
    /\ parseResult = NoParse

ParseIdle == ParsePending(Single(NullBlock))

(***************************************************************************)
(* publish.js: publishToFile, one step per await.                          *)
(***************************************************************************)
MaxConfigEdits == 1

Modules == {"fetch", "parse", "derive", "publish"}
NoCache == [m \in Modules |-> 0]

\* loadConfig of module m finds its cache filled, or reads the file as it is now
LoadConfig(m) ==
    /\ configCache' = [configCache EXCEPT ![m] = IF @ = 0 THEN configFile ELSE @]
    /\ configReads' = IF configCache[m] = 0 THEN configReads + 1 ELSE configReads

Formats == <<"css", "json", "html">>
Options == [css : BOOLEAN, json : BOOLEAN, html : BOOLEAN]
DefaultOptions == [css |-> TRUE, json |-> TRUE, html |-> TRUE]
ColorData == {"palette", "malformed"}
NoResults == [success |-> TRUE, outputs |-> <<>>, errors |-> <<>>]
MkdirOutcomes == {"ok", "EEXIST", "EACCES"}

\* a choice of the next format that does not look at options
NextFormatIgnoringOptions(k) == IF k < 3 THEN k + 1 ELSE 4

\* index of the first format after k that options does not switch off, 4 if none
NextFormat(k) ==
    IF \E j \in (k + 1)..3 : pubOptions[Formats[j]]
    THEN CHOOSE j \in (k + 1)..3 :
            /\ pubOptions[Formats[j]]
            /\ \A i \in (k + 1)..(j - 1) : ~pubOptions[Formats[i]]
    ELSE 4

\* lines 171-213 after format k is dealt with: the next enabled format has its
\* content generated (outside any try) and handed to writeFile; after the last
\* one the results are returned
Proceed(k, res) ==
    LET j == NextFormat(k)
    IN  /\ results' = res
        /\ IF j = 4
           THEN pubPc' = "done" /\ pubOutcome' = "returned" /\ UNCHANGED attempted
           ELSE IF colorData = "malformed"
           THEN pubPc' = "done" /\ pubOutcome' = "thrown" /\ UNCHANGED attempted
           ELSE /\ pubPc' = Formats[j]
                /\ pubOutcome' = "none"
                /\ attempted' = Append(attempted, Formats[j])

\* publishToFile(cd, options) is called, line 136-137
PublishToFile(options, cd) ==
    /\ pubOptions' = options
    /\ colorData' = cd
    /\ results' = NoResults
    /\ pubOutcome' = "none"
    /\ mkdirResult' = "none"
    /\ attempted' = <<>>
    /\ written' = {}
    /\ pubPc' = "config"

\* a mkdir that only records its failure in results.errors
MkdirSettlesReported ==
    /\ pubPc = "mkdir"
    /\ \E o \in MkdirOutcomes :
         /\ mkdirResult' = o
         /\ IF o = "EACCES"
            THEN Proceed(0, [results EXCEPT !.success = FALSE,
                                            !.errors = Append(@, "mkdir")])
            ELSE Proceed(0, results)
    /\ UNCHANGED <<pubOptions, colorData, written>>
    /\ UNCHANGED <<sideVars, fetchVars, deriveVars, parseVars, envVars, pipeVars>>

\* a write step that gives up the remaining formats after a failed write
WriteSettlesStopAtFailure ==
    /\ pubPc \in {"css", "json", "html"}
    /\ LET k == CHOOSE j \in 1..3 : Formats[j] = pubPc
       IN  \/ /\ written' = written \cup {pubPc}
              /\ Proceed(k, [results EXCEPT !.outputs = Append(@, pubPc)])
           \/ /\ written' = written
              /\ Proceed(3, [results EXCEPT !.errors = Append(@, pubPc),
                                            !.success = FALSE])
    /\ UNCHANGED <<pubOptions, colorData, mkdirResult>>
    /\ UNCHANGED <<sideVars, fetchVars, deriveVars, parseVars, envVars, pipeVars>>

\* await loadConfig() settles, lines 137-152
PubConfigSettles ==
    /\ pubPc = "config"
    /\ \/ /\ LoadConfig("publish")
          /\ IF env = "browser"
             THEN /\ results' = [results EXCEPT !.success = FALSE,
                                                !.errors = Append(@, "env")]
                  /\ pubPc' = "done"
                  /\ pubOutcome' = "returned"
             ELSE /\ pubPc' = "mkdir"
                  /\ UNCHANGED <<results, pubOutcome>>
       \/ \* loadConfig rethrows a failed read, lines 33-36
          /\ configCache["publish"] = 0
          /\ pubPc' = "done"
          /\ pubOutcome' = "thrown"
          /\ UNCHANGED <<results, configCache, configReads>>
    /\ UNCHANGED <<pubOptions, colorData, mkdirResult, attempted, written>>
    /\ UNCHANGED <<env, configFile>>
    /\ UNCHANGED <<sideVars, fetchVars, deriveVars, parseVars, pipeVars>>

\* await mkdir(..., {recursive: true}) settles, lines 163-169
MkdirSettles ==
    /\ pubPc = "mkdir"
    /\ \E o \in MkdirOutcomes :
         /\ mkdirResult' = o
         /\ IF o = "EACCES"
            THEN /\ pubPc' = "done"
                 /\ pubOutcome' = "thrown"
                 /\ UNCHANGED <<results, attempted>>
            ELSE Proceed(0, results)
    /\ UNCHANGED <<pubOptions, colorData, written>>
    /\ UNCHANGED <<sideVars, fetchVars, deriveVars, parseVars, envVars, pipeVars>>

\* await writeFile(...) of the format under way settles, lines 175-182,
\* 189-196, 203-210
WriteSettles ==
    /\ pubPc \in {"css", "json", "html"}
    /\ LET k == CHOOSE j \in 1..3 : Formats[j] = pubPc
       IN  \/ /\ written' = written \cup {pubPc}
              /\ Proceed(k, [results EXCEPT !.outputs = Append(@, pubPc)])
           \/ /\ written' = written
              /\ Proceed(k, [results EXCEPT !.errors = Append(@, pubPc),
                                            !.success = FALSE])
    /\ UNCHANGED <<pubOptions, colorData, mkdirResult>>
    /\ UNCHANGED <<sideVars, fetchVars, deriveVars, parseVars, envVars, pipeVars>>

\* a caller invokes publishToFile with some options and colour data
PublishCall ==
    /\ pubPc \in {"idle", "done"}
    /\ \E options \in Options, cd \in ColorData : PublishToFile(options, cd)
    /\ UNCHANGED <<sideVars, fetchVars, deriveVars, parseVars, envVars, pipeVars>>

\* inputs/config.json is rewritten by someone else
EditConfig ==
    /\ configFile <= MaxConfigEdits
    /\ configFile' = configFile + 1
    /\ UNCHANGED <<env, configCache, configReads>>
    /\ UNCHANGED <<sideVars, fetchVars, deriveVars, parseVars, pubVars, pipeVars>>

EnvIdle(e) ==
    /\ env = e
    /\ configFile = 1
    /\ configCache = NoCache
    /\ configReads = 0

PubIdle ==
    /\ pubPc = "idle"
    /\ pubOptions = DefaultOptions
    /\ colorData = "palette"
    /\ results = NoResults
    /\ pubOutcome = "none"
    /\ mkdirResult = "none"
    /\ attempted = <<>>
    /\ written = {}

(***************************************************************************)
(* The orchestrators: cron_runner.js runPipeline and main (lines 62-170),  *)
(* main.js runPipeline and runPipelineSafe, test_pipeline.js.  The three   *)
(* first steps are followed by their outcome only; publish is the          *)
(* publishToFile above.  An error message is its sequence of words.        *)
(***************************************************************************)
PipelineMaxRetries == 2

Steps == <<"fetch", "parse", "derive", "publish">>
StepNames == {"fetch", "parse", "derive", "publish"}
NoOut == [s \in StepNames |-> "none"]

\* PIPELINE_CONFIG.retryableErrors, line 10
retryableErrors == {<<"Failed", "to", "fetch">>, <<"Network", "error">>, <<"timeout">>}

\* String.prototype.includes, word by word
Includes(msg, sub) ==
    \E i \in 1..(Len(msg) - Len(sub) + 1) : SubSeq(msg, i, i + Len(sub) - 1) = sub

\* an isRetryable that is true of every error
IsRetryableAlways(msg) == TRUE

\* isRetryable, lines 340-342
IsRetryable(msg) == \E r \in retryableErrors : Includes(msg, r)

\* what a step's own function throws: fetchLatestBlockHash line 154, a failed
\* read of config.json, a TypeError or failed import, line 167 of publish.js
MsgExhausted ==
    <<"Failed", "to", "fetch", "latest", "block", "hash", "after", "4", "attempts">>
MsgConfig == <<"ENOENT", "no", "such", "file", "or", "directory">>
MsgInternal == <<"Cannot", "read", "properties", "of", "undefined">>
MsgMkdir == <<"EACCES", "permission", "denied">>
MsgNoDocument == <<"document", "is", "not", "defined">>
MsgLoadModules == <<"Failed", "to", "load", "modules">>

ThrownMessage(s) == IF s = "fetch" THEN MsgExhausted ELSE MsgInternal

\* what the orchestrator throws when step s returned nothing usable
StepFailedMessage(o, s) ==
    IF o = "main"
    THEN CASE s = "fetch" -> <<"Failed", "to", "fetch", "latest", "block", "hash">>
           [] s = "parse" -> <<"Failed", "to", "parse", "block", "hash">>
           [] OTHER -> <<"Failed", "to", "derive", "colors">>
    ELSE CASE s = "fetch" -> <<"Could", "not", "fetch", "block", "hash">>
           [] s = "parse" -> <<"Could", "not", "parse", "block", "hash">>
           [] s = "derive" -> <<"Could", "not", "derive", "colors">>
           [] OTHER -> <<"Publish", "failed">>

NoRun ==
    [outcome |-> "none", success |-> FALSE, error |-> <<>>, duration |-> FALSE,
     step |-> "absent", publishOk |-> FALSE]
NoSafe ==
    [outcome |-> "none", success |-> FALSE, attempt |-> 0, attempts |-> 0,
     error |-> <<>>, step |-> "absent", duration |-> FALSE]

\* lines 352-358 of main.js: step is lastError?.step || 'unknown', and no
\* error thrown by runPipeline carries a step
SafeFailure(msg) ==
    [outcome |-> "returned", success |-> FALSE, attempt |-> 0,
     attempts |-> retries + 1, error |-> msg, step |-> "unknown",
     duration |-> FALSE]

\* the run ends in failure with message msg.
\* cron: the catch of lines 133-143, then main exits 1 (line 162);
\* test: process.exit(1); main: runPipeline throws into the catch of
\* runPipelineSafe, lines 331-349
RunFails(msg) ==
    CASE orch = "cron" ->
           /\ runResult' = [outcome |-> "returned", success |-> FALSE,
                            error |-> msg, duration |-> TRUE, step |-> "absent",
                            publishOk |-> FALSE]
           /\ exitCode' = 1
           /\ step' = "ended"
           /\ UNCHANGED <<lastError, safeResult>>
      [] orch = "test" ->
           /\ runResult' = [NoRun EXCEPT !.outcome = "thrown", !.error = msg]
           /\ exitCode' = 1
           /\ step' = "ended"
           /\ UNCHANGED <<lastError, safeResult>>
      [] OTHER ->
           /\ runResult' = [NoRun EXCEPT !.outcome = "thrown", !.error = msg]
           /\ lastError' = msg
           /\ IF ~IsRetryable(msg) \/ safeAttempt >= retries
              THEN /\ safeResult' = SafeFailure(msg)
                   /\ step' = "ended"
              ELSE /\ step' = "backoff"
                   /\ UNCHANGED safeResult
           /\ UNCHANGED exitCode

\* a main.js runPipeline that fails when publish did
RunSucceedsOnlyIfPublished(publishOk) ==
    IF publishOk
    THEN /\ runResult' = [outcome |-> "returned", success |-> TRUE, error |-> <<>>,
                          duration |-> TRUE, step |-> "absent",
                          publishOk |-> publishOk]
         /\ step' = "ended"
         /\ exitCode' = IF orch = "main" THEN exitCode ELSE 0
         /\ safeResult' = IF orch = "main"
                          THEN [outcome |-> "returned", success |-> TRUE,
                                attempt |-> safeAttempt + 1, attempts |-> 0,
                                error |-> <<>>, step |-> "absent",
                                duration |-> TRUE]
                          ELSE safeResult
         /\ UNCHANGED lastError
    ELSE RunFails(<<"Publish", "failed">>)

\* the run ends well: cron lines 119-131 and 159-160, test line 80, main.js
\* lines 163-176 and runPipelineSafe lines 325-329
RunSucceeds(publishOk) ==
    /\ runResult' = [outcome |-> "returned", success |-> TRUE, error |-> <<>>,
                     duration |-> TRUE, step |-> "absent", publishOk |-> publishOk]
    /\ step' = "ended"
    /\ exitCode' = IF orch = "main" THEN exitCode ELSE 0
    /\ safeResult' = IF orch = "main"
                     THEN [outcome |-> "returned", success |-> TRUE,
                           attempt |-> safeAttempt + 1, attempts |-> 0,
                           error |-> <<>>, step |-> "absent", duration |-> TRUE]
                     ELSE safeResult
    /\ UNCHANGED lastError

\* the process starts its orchestrator: cron main() and test_pipeline call
\* fetchLatestBlockHash, runPipelineSafe calls runPipeline (initModules)
RunStart ==
    /\ step = "idle"
    /\ runs' = 1
    /\ IF orch = "main"
       THEN step' = "init" /\ started' = <<>>
       ELSE step' = "fetch" /\ started' = <<"fetch">>
    /\ UNCHANGED <<orch, stepOut, runResult, exitCode, retries, safeAttempt,
                   lastError, safeResult>>
    /\ UNCHANGED <<sideVars, fetchVars, deriveVars, parseVars, envVars, pubVars>>

\* main.js: await initModules() settles, lines 100-103
InitSettles ==
    /\ step = "init"
    /\ \/ /\ step' = "fetch"
          /\ started' = <<"fetch">>
          /\ UNCHANGED <<runResult, exitCode, lastError, safeResult>>
       \/ /\ RunFails(MsgLoadModules)
          /\ UNCHANGED started
    /\ UNCHANGED <<orch, stepOut, retries, safeAttempt, runs>>
    /\ UNCHANGED <<sideVars, fetchVars, deriveVars, parseVars, envVars, pubVars>>

\* the awaited step s settles; on a usable result the run goes on with Go
StepSettles(s, Go) ==
    /\ step = s
    /\ \/ /\ LoadConfig(s)
          /\ \E out \in {"usable", "unusable", "thrown"} :
               /\ stepOut' = [stepOut EXCEPT
                               ![s] = out,
                               !["publish"] =
                                   IF s = "derive" /\ out = "usable"
                                      /\ orch = "main" /\ env = "browser"
                                   THEN "usable" ELSE @]
               /\ IF out = "usable" THEN Go
                  ELSE /\ RunFails(IF out = "unusable"
                                   THEN StepFailedMessage(orch, s)
                                   ELSE ThrownMessage(s))
                       /\ UNCHANGED started
                       /\ UNCHANGED pubVars
       \/ \* the module's loadConfig rethrows a failed read
          /\ configCache[s] = 0
          /\ UNCHANGED <<configCache, configReads>>
          /\ stepOut' = [stepOut EXCEPT ![s] = "thrown"]
          /\ RunFails(MsgConfig)
          /\ UNCHANGED started
          /\ UNCHANGED pubVars
    /\ UNCHANGED <<orch, retries, safeAttempt, runs>>
    /\ UNCHANGED <<env, configFile>>
    /\ UNCHANGED <<sideVars, fetchVars, deriveVars, parseVars>>

\* the next step is called
Enter(next) ==
    /\ step' = next
    /\ started' = Append(started, next)
    /\ UNCHANGED <<runResult, exitCode, lastError, safeResult>>

\* fetchLatestBlockHash settles: cron 70-75, main.js 107-111, test 12-17
FetchStepSettles == StepSettles("fetch", Enter("parse") /\ UNCHANGED pubVars)

\* parseLedger settles: cron 81-86, main.js 117-121, test 24-29
ParseStepSettles == StepSettles("parse", Enter("derive") /\ UNCHANGED pubVars)

\* a derive step whose result is published even when its palette is empty
DeriveStepSettlesUnchecked ==
    /\ step = "derive"
    /\ LoadConfig("derive")
    /\ \E out \in {"usable", "unusable"} :
         stepOut' = [stepOut EXCEPT !["derive"] = out]
    /\ Enter("publish")
    /\ PublishToFile(DefaultOptions, "palette")
    /\ UNCHANGED <<orch, retries, safeAttempt, runs>>
    /\ UNCHANGED <<env, configFile>>
    /\ UNCHANGED <<sideVars, fetchVars, deriveVars, parseVars>>

\* deriveColors settles and publish is called: cron 92-105, main.js 127-155,
\* test 36-54.  In a browser main.js calls publishForBrowser, which returns at
\* once and writes no file.
DeriveStepSettles ==
    StepSettles("derive",
        IF orch = "main" /\ env = "browser"
        THEN /\ step' = "display"
             /\ started' = Append(started, "publish")
             /\ UNCHANGED <<runResult, exitCode, lastError, safeResult>>
             /\ UNCHANGED pubVars
        ELSE /\ Enter("publish")
             /\ PublishToFile(DefaultOptions, "palette"))

\* a reading of the publish result that takes every returned object for success
PublishOutcomeLenient ==
    IF pubOutcome = "thrown" THEN "thrown" ELSE "usable"

\* !publishResult || !publishResult.success, cron line 109, test line 57
PublishOutcome ==
    IF pubOutcome = "thrown" THEN "thrown"
    ELSE IF results.success THEN "usable" ELSE "unusable"

\* publish has settled: cron 107-131, test 56-80, main.js 145-158
PublishStepReturns ==
    /\ step = "publish"
    /\ pubPc = "done"
    /\ pubPc' = "idle"
    /\ stepOut' = [stepOut EXCEPT !["publish"] = PublishOutcome]
    /\ IF orch = "main"
       THEN /\ step' = "display"
            /\ UNCHANGED <<runResult, exitCode, lastError, safeResult>>
       ELSE IF PublishOutcome = "usable"
       THEN RunSucceeds(TRUE)
       ELSE RunFails(IF PublishOutcome = "unusable"
                     THEN StepFailedMessage(orch, "publish")
                     ELSE IF mkdirResult = "EACCES" THEN MsgMkdir ELSE MsgConfig)
    /\ UNCHANGED <<orch, started, retries, safeAttempt, runs>>
    /\ UNCHANGED <<pubOptions, colorData, results, pubOutcome, mkdirResult,
                   attempted, written>>
    /\ UNCHANGED <<sideVars, fetchVars, deriveVars, parseVars, envVars>>

\* main.js: await updateDisplay(...) settles, lines 160-176; without a global
\* `document` its first line raises a ReferenceError
DisplaySettles ==
    /\ step = "display"
    /\ IF env = "node"
       THEN RunFails(MsgNoDocument)
       ELSE RunSucceeds(stepOut["publish"] = "usable")
    /\ UNCHANGED <<orch, started, stepOut, retries, safeAttempt, runs>>
    /\ UNCHANGED <<sideVars, fetchVars, deriveVars, parseVars, envVars, pubVars>>

\* runPipelineSafe: the wait of line 349 ends and the loop calls runPipeline again
BackoffEnds ==
    /\ step = "backoff"
    /\ safeAttempt' = safeAttempt + 1
    /\ runs' = runs + 1
    /\ step' = "init"
    /\ started' = <<>>
    /\ stepOut' = NoOut
    /\ written' = {}
    /\ UNCHANGED <<orch, runResult, exitCode, retries, lastError, safeResult>>
    /\ UNCHANGED <<pubPc, pubOptions, colorData, results, pubOutcome, mkdirResult,
                   attempted>>
    /\ UNCHANGED <<sideVars, fetchVars, deriveVars, parseVars, envVars>>

\* the process before its orchestrator o starts, with options.retries = r
PipeIdle(o, r) ==
    /\ orch = o
    /\ step = "idle"
    /\ started = <<>>
    /\ stepOut = NoOut
    /\ runResult = NoRun
    /\ exitCode = -1
    /\ retries = r
    /\ safeAttempt = 0
    /\ runs = 0
    /\ lastError = <<>>
    /\ safeResult = NoSafe

(***************************************************************************)
(* One deriveSingleColor call on a six-digit window, and the accent that   *)
(* deriveColors builds from the colour it returns.                         *)
(***************************************************************************)
\* the window whose hue, saturation and lightness digits read v3, v2 and v1
Window(v3, v2, v1) ==
    <<v3 \div 256, (v3 \div 16) % 16, v3 % 16, v2 \div 16, v2 % 16, v1>>

\* every hue value with a few saturation and lightness digits, and every
\* saturation and lightness value with a few hues
Windows ==
    {Window(v3, sl[1], sl[2]) :
        v3 \in 0..4095, sl \in {<<0, 0>>, <<128, 7>>, <<255, 15>>}}
      \cup {Window(v3, v2, v1) : v3 \in {0, 1234, 4095}, v2 \in 0..255, v1 \in 0..15}

\* colorDerivation of inputs/config.json: the keys missing, ranges inside
\* 0..1, and a saturationRange of [0.5, 1.5]; loadConfig (lines 184-208)
\* hands over whatever the file holds
SwatchConfigs ==
    {[paletteSize |-> 0, saturationRange |-> r.saturationRange,
      lightnessRange |-> r.lightnessRange] :
        r \in Ranges \cup {[saturationRange |-> <<50, 150>>,
                            lightnessRange |-> <<20, 80>>]}}

NoSwatch == <<>>

SwatchIdle == seg = <<>> /\ segCfg = <<>> /\ swatch = NoSwatch /\ accentOf = NoColor

SwatchPending(w, cfg) ==
    seg = w /\ segCfg = cfg /\ swatch = NoSwatch /\ accentOf = NoColor

\* lines 367-389: deriveSingleColor on the window, then the accent of the colour
SwatchCall ==
    /\ seg # <<>>
    /\ swatch = NoSwatch
    /\ swatch' = <<deriveSingleColor(seg, segCfg)>>
    /\ accentOf' = Accent(swatch')
    /\ UNCHANGED <<seg, segCfg>>
    /\ UNCHANGED <<raceVars, fetchVars, deriveVars, parseVars, envVars, pubVars,
                   pipeVars>>

(***************************************************************************)
(* Two cron_runner processes whose step 4 (cron_runner.js 102-109) calls   *)
(* publishToFile on the same output directory, every format enabled.       *)
(* Nothing in publish.js locks the directory or writes through temporary   *)
(* files: each process awaits its three writeFile calls in turn.           *)
(***************************************************************************)
Runs == {"A", "B"}
OtherRun(r) == IF r = "A" THEN "B" ELSE "A"

\* what an output file holds: nothing yet, the content generated by run "A"
\* or by run "B", or bytes of both
NoFile == "none"
Mixed == "mixed"

RaceResults == [outputs |-> <<>>, errors |-> <<>>]

\* the position after the write of Formats[k]
RaceNext(k) == IF k < Len(Formats) THEN Formats[k + 1] ELSE "done"

\* run r moves on to position p; a writeFile of a file that the other run is
\* writing at that moment clashes with it
RaceEnter(r, p) ==
    /\ racePc' = [racePc EXCEPT ![r] = p]
    /\ clashed' = IF p = racePc[OtherRun(r)] /\ p \in {"css", "json", "html"}
                  THEN clashed \cup {p} ELSE clashed

\* lines 136-160: run r calls publishToFile and awaits mkdir
RaceStart(r) ==
    /\ racePc[r] = "idle"
    /\ racePc' = [racePc EXCEPT ![r] = "mkdir"]
    /\ raceOrder' = Append(raceOrder, r)
    /\ overlapped' = (overlapped \/ racePc[OtherRun(r)] \notin {"idle", "done", "thrown"})
    /\ UNCHANGED <<raceResults, files, clashed>>
    /\ UNCHANGED <<swatchVars, fetchVars, deriveVars, parseVars, envVars, pubVars,
                   pipeVars>>

\* lines 163-169: mkdir of run r settles; anything but EEXIST is rethrown
RaceMkdir(r) ==
    /\ racePc[r] = "mkdir"
    /\ \E o \in MkdirOutcomes :
         IF o = "EACCES"
         THEN racePc' = [racePc EXCEPT ![r] = "thrown"] /\ UNCHANGED clashed
         ELSE RaceEnter(r, Formats[1])
    /\ UNCHANGED <<raceResults, files, overlapped, raceOrder>>
    /\ UNCHANGED <<swatchVars, fetchVars, deriveVars, parseVars, envVars, pubVars,
                   pipeVars>>

\* a writeFile that leaves a file alone once it exists
RaceWriteKeepingExisting(r) ==
    /\ racePc[r] \in {"css", "json", "html"}
    /\ LET f == racePc[r]
           k == CHOOSE j \in 1..3 : Formats[j] = f
       IN  /\ \/ /\ files' = IF files[f] = NoFile THEN [files EXCEPT ![f] = r]
                             ELSE files
                 /\ raceResults' = [raceResults EXCEPT ![r].outputs = Append(@, f)]
              \/ /\ files' = files
                 /\ raceResults' = [raceResults EXCEPT ![r].errors = Append(@, f)]
           /\ RaceEnter(r, RaceNext(k))
    /\ UNCHANGED <<overlapped, raceOrder>>
    /\ UNCHANGED <<swatchVars, fetchVars, deriveVars, parseVars, envVars, pubVars,
                   pipeVars>>

\* lines 175-182, 189-196, 203-210: the writeFile run r awaits settles.  A write
\* that had the file to itself replaces its content; one that clashed with the
\* other run's write of the same file can leave either content or bytes of both
RaceWrite(r) ==
    /\ racePc[r] \in {"css", "json", "html"}
    /\ LET f == racePc[r]
           k == CHOOSE j \in 1..3 : Formats[j] = f
       IN  /\ \/ /\ \E c \in (IF f \in clashed
                              THEN {r, Mixed}
                                     \cup ({files[f]} \cap {OtherRun(r)})
                              ELSE {r}) :
                      files' = [files EXCEPT ![f] = c]
                 /\ raceResults' = [raceResults EXCEPT ![r].outputs = Append(@, f)]
              \/ /\ files' = files
                 /\ raceResults' = [raceResults EXCEPT ![r].errors = Append(@, f)]
           /\ RaceEnter(r, RaceNext(k))
    /\ UNCHANGED <<overlapped, raceOrder>>
    /\ UNCHANGED <<swatchVars, fetchVars, deriveVars, parseVars, envVars, pubVars,
                   pipeVars>>

RaceIdle ==
    /\ racePc = [r \in Runs |-> "idle"]
    /\ raceResults = [r \in Runs |-> RaceResults]
    /\ files = [f \in {"css", "json", "html"} |-> NoFile]
    /\ overlapped = FALSE
    /\ raceOrder = <<>>
    /\ clashed = {}

SideIdle == SwatchIdle /\ RaceIdle

RestIdle ==
    /\ ParseIdle /\ EnvIdle("node") /\ PubIdle
    /\ PipeIdle("cron", PipelineMaxRetries)
    /\ SideIdle

InitFetch == FetchIdle /\ DeriveIdle /\ RestIdle

NextFetch ==
    \/ StartCall
    \/ FetchSettles
    \/ InnerWake
    \/ OuterWake
    \/ JsonSettles

SpecFetch == InitFetch /\ [][NextFetch]_vars

InitDerive == FetchIdle /\ DeriveIdle /\ RestIdle

NextDerive ==
    \/ DeriveCall
    \/ DigestSettles
    \/ Tick

SpecDerive == InitDerive /\ [][NextDerive]_vars

\* deriveColors followed for one call over every digest whose first window has
\* a given hue, so that every primary hue 0..360 is derived.  The digest is
\* 64 hex digits: the window h1 h2 h3 s1 s2 l1, then digits that differ from it.
SatLight == {<<0, 0, 0>>, <<15, 15, 15>>}
WindowDigest(h1, h2, h3, sl) ==
    LET w == <<h1, h2, h3, sl[1], sl[2], sl[3]>>
    IN  [j \in 1..64 |-> IF j <= 6 THEN w[j] ELSE (w[((j - 1) % 6) + 1] + j) % 16]
WindowDigests ==
    {WindowDigest(h1, h2, h3, sl) :
        h1 \in 0..15, h2 \in 0..15, h3 \in 0..15, sl \in SatLight}
PaletteConfigs == {c \in Configs : c.paletteSize = 2}

PaletteCall == DeriveCallWith(PaletteConfigs, 1)

PaletteDigestSettles == DigestSettlesWith(WindowDigests)

InitPalette == FetchIdle /\ DeriveIdle /\ RestIdle

NextPalette ==
    \/ PaletteCall
    \/ PaletteDigestSettles

SpecPalette == InitPalette /\ [][NextPalette]_vars

InitParse ==
    /\ FetchIdle /\ DeriveIdle /\ EnvIdle("node") /\ PubIdle
    /\ PipeIdle("cron", PipelineMaxRetries)
    /\ SideIdle
    /\ \E raw \in RawData : ParsePending(raw)

NextParse == ParseCall

SpecParse == InitParse /\ [][NextParse]_vars

InitPublish ==
    /\ FetchIdle /\ DeriveIdle /\ ParseIdle /\ PubIdle
    /\ PipeIdle("cron", PipelineMaxRetries)
    /\ SideIdle
    /\ \E e \in {"node", "browser"} : EnvIdle(e)

NextPublish ==
    \/ PublishCall
    \/ PubConfigSettles
    \/ MkdirSettles
    \/ WriteSettles

SpecPublish == InitPublish /\ [][NextPublish]_vars

\* one process per behaviour: the cron runner or the test runner under Node, or
\* main.js under Node, under Node with a global document, or in a browser
InitPipeline ==
    /\ FetchIdle /\ DeriveIdle /\ ParseIdle /\ PubIdle /\ SideIdle
    /\ \/ EnvIdle("node") /\ PipeIdle("cron", PipelineMaxRetries)
       \/ EnvIdle("node") /\ PipeIdle("test", PipelineMaxRetries)
       \/ \E e \in {"node", "nodeDom", "browser"}, r \in 0..PipelineMaxRetries :
             EnvIdle(e) /\ PipeIdle("main", r)

NextPipeline ==
    \/ RunStart
    \/ InitSettles
    \/ FetchStepSettles
    \/ ParseStepSettles
    \/ DeriveStepSettles
    \/ PubConfigSettles
    \/ MkdirSettles
    \/ WriteSettles
    \/ PublishStepReturns
    \/ DisplaySettles
    \/ BackoffEnds
    \/ EditConfig

SpecPipeline == InitPipeline /\ [][NextPipeline]_vars

\* every step that is under way eventually settles
FairPipeline ==
    SpecPipeline /\ WF_vars(RunStart \/ InitSettles \/ FetchStepSettles
                            \/ ParseStepSettles \/ DeriveStepSettles
                            \/ PubConfigSettles \/ MkdirSettles \/ WriteSettles
                            \/ PublishStepReturns \/ DisplaySettles
                            \/ BackoffEnds)

\* deriveSingleColor applied once to each window under each configuration
InitSwatch ==
    /\ FetchIdle /\ DeriveIdle /\ ParseIdle /\ EnvIdle("node") /\ PubIdle
    /\ PipeIdle("cron", PipelineMaxRetries)
    /\ RaceIdle
    /\ \E w \in Windows, cfg \in SwatchConfigs : SwatchPending(w, cfg)

NextSwatch == SwatchCall

SpecSwatch == InitSwatch /\ [][NextSwatch]_vars

\* two processes publishing at their own pace
InitRace ==
    /\ FetchIdle /\ DeriveIdle /\ ParseIdle /\ EnvIdle("node") /\ PubIdle
    /\ PipeIdle("cron", PipelineMaxRetries)
    /\ SideIdle

NextRace == \E r \in Runs : RaceStart(r) \/ RaceMkdir(r) \/ RaceWrite(r)

SpecRace == InitRace /\ [][NextRace]_vars

(***************************************************************************)
(* Hash Source Client: properties of one fetchLatestBlockHash call.        *)
(***************************************************************************)
Done == pc = "done"

\* C1: a source that answers every request with a 5xx status sees exactly
\* maxRetries+1 requests, and the call then throws.
C1_RetryCeiling ==
    (Done /\ seen = {"5xx"}) =>
        (requests = maxRetries + 1 /\ result = Thrown)

\* C2: once a request has been answered with a 4xx status the call has failed:
\* it is not sleeping and has no further request under way.
C2_ClientErrorFailsAtOnce ==
    Is4xx(lastResp) => (Done /\ result = Thrown)

\* C3 as the spec words it: the delay before attempt k is
\* min(maxDelayMs, initialDelayMs * backoffMultiplier^k), i.e. 2000, 4000, 8000.
C3_DelayUsesNextAttempt ==
    /\ (pc = "innerSleep") =>
          delay = Min(maxDelayMs,
                      initialDelayMs * Pow(backoffMultiplier, innerAttempt + 1))
    /\ (pc = "outerSleep") =>
          delay = Min(maxDelayMs,
                      initialDelayMs * Pow(backoffMultiplier, attempt + 1))

\* C3 (amended): in either retry loop the delay waited before the loop's attempt
\* k >= 1 is min(maxDelayMs, initialDelayMs * backoffMultiplier^(k-1)), i.e.
\* 1000, 2000 and 4000 ms before attempts 1, 2 and 3, never above maxDelayMs.
C3_DelayUsesFailedAttempt ==
    LET k == IF pc = "innerSleep" THEN innerAttempt + 1 ELSE attempt + 1 IN
    /\ (pc \in {"innerSleep", "outerSleep"}) =>
          /\ k >= 1 /\ k <= maxRetries
          /\ delay = Min(maxDelayMs, initialDelayMs * Pow(backoffMultiplier, k - 1))
          /\ delay = <<1000, 2000, 4000>>[k]
    /\ delay <= maxDelayMs

C3_Witness ==
    pc = "innerSleep" /\ innerAttempt = 2 /\ delay = 4000 /\ sleeper = "inner"

\* C4 as the spec words it: an object yields its hash, or its id when hash is
\* missing; a non-empty array yields the hash or id of element 0.
C4_HashOrId ==
    (Done /\ result.outcome = "returned") =>
        /\ (body.kind = "object" /\ body.blockHash = ABSENT) =>
              result.value = JsString(IF Truthy(body.hash) THEN body.hash ELSE body.id)
        /\ (body.kind = "array" /\ Len(body.elems) > 0) =>
              result.value \in {JsString(body.elems[1].hash), JsString(body.elems[1].id)}

\* C4 (amended): an object yields block.hash, else its hash field, else null (id
\* is not consulted); a non-empty array yields the id of element 0, else its
\* hash, else element 0 itself, and never anything of a later element.
C4_ExtractedValue ==
    (Done /\ result.outcome = "returned") =>
        /\ (body.kind = "object") =>
              /\ Truthy(body.blockHash) => result.value = JsString(body.blockHash)
              /\ (~Truthy(body.blockHash) /\ Truthy(body.hash)) =>
                    result.value = JsString(body.hash)
              /\ (~Truthy(body.blockHash) /\ ~Truthy(body.hash)) =>
                    result.value = JsNull
        /\ (body.kind = "array" /\ Len(body.elems) > 0) =>
              LET e == body.elems[1] IN
              /\ Truthy(e.id) => result.value = JsString(e.id)
              /\ (~Truthy(e.id) /\ Truthy(e.hash)) => result.value = JsString(e.hash)
              /\ (~Truthy(e.id) /\ ~Truthy(e.hash)) =>
                    result.value = [kind |-> e.kind, val |-> e.val]
              /\ \A j \in 2..Len(body.elems) :
                    result.value.val \notin
                        {body.elems[j].id, body.elems[j].hash, body.elems[j].val}

C4_Witness ==
    /\ Done
    /\ body.kind = "array" /\ Len(body.elems) = 2
    /\ Truthy(body.elems[1].id) /\ Truthy(body.elems[1].hash)
    /\ result = Returned(JsString("id0"))

\* the payloads C5 is about: parsed JSON that is neither an object with a hash
\* or id nor an array whose element 0 has a hash or id
NoHashOrId(b) ==
    \/ b.kind \in {"null", "string"}
    \/ b.kind = "object" /\ ~Truthy(b.hash) /\ ~Truthy(b.id) /\ ~Truthy(b.blockHash)
    \/ b.kind = "array" /\ Len(b.elems) = 0
    \/ b.kind = "array" /\ Len(b.elems) > 0
          /\ ~Truthy(b.elems[1].hash) /\ ~Truthy(b.elems[1].id)

\* C5 as the spec words it: such a payload never ends the call with a value
\* handed to the caller.
C5_NoHashThrows ==
    (Done /\ Ok(lastResp) /\ NoHashOrId(body)) => result.outcome = "thrown"

\* C5 (amended): such a payload does not make the call fail. The call returns
\* null for an empty array, a scalar or an object without hash, and element 0
\* itself for an array whose element 0 has neither id nor hash; only JSON null,
\* as the payload or as element 0, raises inside the attempt, which then counts
\* as a failed attempt.
C5_NoHashReturned ==
    (Done /\ Ok(lastResp) /\ NoHashOrId(body)) =>
        IF body.kind = "null" \/ (body.kind = "array" /\ Len(body.elems) > 0
                                     /\ body.elems[1].kind = "null")
        THEN result = Thrown /\ attempt = maxRetries
        ELSE /\ result.outcome = "returned"
             /\ (body.kind # "array" \/ Len(body.elems) = 0) => result.value = JsNull
             /\ (body.kind = "array" /\ Len(body.elems) > 0) =>
                    result.value = [kind |-> body.elems[1].kind,
                                    val |-> body.elems[1].val]

C5_Witness ==
    Done /\ lastResp = Http(200) /\ body = JsonArray(<<>>) /\ result = Returned(JsNull)

Completed == dpc = "ready" /\ calls > 0
EmptyInput == ~input.present \/ FalsyHash(input.hash)
Derived == dpc = "ready" /\ output.outcome = "returned" /\ output.hash # NoHash

\* C8 as the spec words it: a call without a usable hash fails with an error.
C8_EmptyInputThrows ==
    (Completed /\ EmptyInput) => output.outcome = "thrown"

\* C8 (amended): a call without a usable hash raises no error of its own: once
\* the configuration is loaded it returns normally an object with an empty
\* palette, primaryColor null, hash null and no accentColor, never a palette
\* with swatches in it.
C8_EmptyInputReturnsEmptyPalette ==
    (Completed /\ EmptyInput) =>
        IF deriveConfig = <<>>
        THEN output.outcome = "thrown"
        ELSE /\ output.outcome = "returned"
             /\ output.palette = <<>>
             /\ output.primaryColor = NoColor
             /\ ~output.hasAccent
             /\ output.hash = NoHash

C8_Witness ==
    /\ Completed /\ input.present /\ input.hash = <<>>
    /\ output.outcome = "returned" /\ output.palette = <<>>

\* C9: for every paletteSize n >= 1 the palette has exactly n swatches, swatch i
\* carries index i and is derived from the six digits at offset (i*6) mod 64 of
\* the digest, the window wrapping to the start of the digest.
C9_CyclicWindows ==
    Derived =>
        LET cfg == deriveConfig[1]
            n == PaletteSize(cfg)
        IN  /\ Len(output.palette) = n
            /\ \A i \in 0..(n - 1) :
                  /\ output.palette[i + 1].index = i
                  /\ output.palette[i + 1].hsl
                        = deriveSingleColor(SegmentCyclic(digest, i), cfg).hsl

\* C10: every call with the same hash and configuration returns the palette,
\* primaryColor and accentColor of the first such call, whenever it runs and
\* whatever was derived in between.
C10_Deterministic ==
    Derived =>
        \A e \in memo :
            e.key = <<output.hash, deriveConfig[1]>> =>
                /\ e.out.palette = output.palette
                /\ e.out.primaryColor = output.primaryColor
                /\ e.out.accentColor = output.accentColor

C10_Witness ==
    /\ Derived /\ calls = MaxCalls /\ output.palette # <<>>
    /\ \E e \in memo :
          /\ e.key = <<output.hash, deriveConfig[1]>>
          /\ e.out.derivedAt # output.derivedAt
          /\ e.out.metadata # output.metadata
          /\ e.out.palette = output.palette
    /\ \E f \in memo : f.key[1] # output.hash

\* C11: whenever deriveColors returns a non-empty palette, primaryColor is the
\* palette's first swatch and accentColor has hue (primary hue + 180) mod 360
\* with the primary's saturation and lightness, for every primary hue 0..360;
\* accentColor is absent (or null) exactly when the palette is empty.
C11_ComplementaryAccent ==
    (Completed /\ output.outcome = "returned") =>
        /\ (output.palette # <<>>) =>
              /\ output.primaryColor = <<output.palette[1]>>
              /\ output.hasAccent
              /\ output.accentColor # NoColor
              /\ LET p == output.primaryColor[1].hsl
                     a == output.accentColor[1].hsl
                 IN  /\ a.h = (p.h + 180) % 360
                     /\ a.h \in 0..359
                     /\ a.s = p.s
                     /\ a.l = p.l
        /\ (output.palette = <<>>) <=>
              (~output.hasAccent \/ output.accentColor = NoColor)

\* a palette whose primary hue is 360: the accent's hue is 180
C11_Witness ==
    /\ Completed /\ output.outcome = "returned"
    /\ output.palette # <<>>
    /\ output.primaryColor[1].hsl.h = 360
    /\ output.accentColor[1].hsl.h = 180

(***************************************************************************)
(* Parser: properties of one parseLedger call.                             *)
(***************************************************************************)
Parsed == parseConfig = "loaded" /\ parseResult.outcome = "returned"

\* the call was handed the hash string s: as the argument itself, or as the
\* hash field of a block (with an id only when s is not empty)
GivenHashString(s) ==
    /\ ~rawData.isArray
    /\ \/ rawData.block.kind = "string" /\ rawData.block.str = s
       \/ /\ rawData.block.kind = "object" /\ rawData.block.hash = s
          /\ (s = <<>> => rawData.block.id = NoField)

\* C12: parseLedger, given a hash string that does not match ^[0-9a-fA-F]+$,
\* returns an empty (or absent) hash without raising; given a matching string it
\* returns exactly its lowercase form, no character removed; and for every
\* input the returned hash is absent, empty, or non-empty over [0-9a-f].
C12_ValidateThenLowercase ==
    /\ \A s \in Strings :
         (parseConfig = "loaded" /\ GivenHashString(s)) =>
            /\ parseResult.outcome = "returned"
            /\ IsHex(s) => /\ parseResult.hash = toLowerCase(s)
                           /\ Len(parseResult.hash) = Len(s)
            /\ ~IsHex(s) => parseResult.hash \in {<<>>, Null}
    /\ Parsed =>
          \/ parseResult.hash \in {<<>>, Null}
          \/ \A k \in 1..Len(parseResult.hash) : parseResult.hash[k] \in LowerHex

\* {hash: "aF0"} comes back as "af0"
C12_Witness ==
    /\ Parsed
    /\ GivenHashString(<<"a", "F", "0">>)
    /\ parseResult.hash = <<"a", "f", "0">>

(***************************************************************************)
(* Orchestrators: properties of one process.                               *)
(***************************************************************************)
StepFailed(s) == stepOut[s] \in {"unusable", "thrown"}
Ended == step = "ended"

\* C13: in every run of cron_runner runPipeline, main.js runPipeline and
\* test_pipeline the steps start in the order fetch, parse, derive, publish; a
\* step starts only after the one before it returned a usable result; once a
\* step has failed no later step is started; no file is written in a run whose
\* fetch, parse or derive failed, and none after a step has failed.
C13_StepsInOrder ==
    /\ [](/\ \E k \in 0..4 : started = SubSeq(Steps, 1, k)
          /\ \A k \in 2..Len(started) : stepOut[started[k - 1]] = "usable"
          /\ \A k \in 1..Len(started) : StepFailed(started[k]) => k = Len(started)
          /\ (\E s \in {"fetch", "parse", "derive"} : StepFailed(s)) =>
                (written = {} /\ attempted = <<>> /\ pubPc = "idle"))
    /\ [][((\E s \in StepNames : StepFailed(s)) /\ runs' = runs) =>
              (written' = written /\ started' = started)]_vars

\* a run whose derive step failed after fetch and parse: it has ended, publish
\* was never started and nothing is written
C13_Witness ==
    /\ Ended
    /\ started = <<"fetch", "parse", "derive">>
    /\ stepOut["fetch"] = "usable" /\ stepOut["parse"] = "usable"
    /\ StepFailed("derive")
    /\ written = {}

\* C14 as the spec words it: when publish throws or returns success=false,
\* neither cron_runner runPipeline nor main.js runPipeline returns success=true.
C14_SuccessOnlyIfPublished ==
    (orch \in {"cron", "main"} /\ Ended /\ StepFailed("publish")) =>
        ~(runResult.outcome = "returned" /\ runResult.success)

\* C14 (amended): cron_runner runPipeline returns success=true only if publish
\* returned success=true, and returns success=false when publish throws or
\* reports failure.  main.js runPipeline does not look at the publish result:
\* it catches a publish error, records the outcome in result.publish, and
\* returns success=true exactly when updateDisplay then completes, i.e. when
\* there is a document.
C14_PublishGatesCronOnly ==
    /\ (orch = "cron" /\ Ended /\ StepFailed("publish")) =>
          (runResult.outcome = "returned" /\ ~runResult.success)
    /\ (orch = "cron" /\ runResult.success) => stepOut["publish"] = "usable"
    /\ (orch = "main" /\ Ended /\ stepOut["publish"] # "none") =>
          /\ (runResult.outcome = "returned" /\ runResult.success) <=> env # "node"
          /\ runResult.success =>
                (runResult.publishOk <=> stepOut["publish"] = "usable")

\* main.js has returned success=true although publish failed
C14_Witness ==
    /\ orch = "main" /\ Ended
    /\ StepFailed("publish")
    /\ runResult.outcome = "returned" /\ runResult.success
    /\ ~runResult.publishOk

\* C17: when a run fails, the result returned by cron_runner runPipeline and by
\* main.js runPipelineSafe names the step that failed (fetch, parse, derive or
\* publish) together with the run duration and the error message.
C17_FailureNamesStep ==
    /\ (orch = "cron" /\ runResult.outcome = "returned" /\ ~runResult.success) =>
          /\ runResult.step \in StepNames
          /\ runResult.duration
          /\ runResult.error # <<>>
    /\ (orch = "main" /\ safeResult.outcome = "returned" /\ ~safeResult.success) =>
          /\ safeResult.step \in StepNames
          /\ safeResult.duration
          /\ safeResult.error # <<>>

AllStepsSucceeded ==
    /\ \A s \in {"fetch", "parse", "derive"} : stepOut[s] = "usable"
    /\ started = Steps
    /\ pubOutcome = "returned" /\ results.success
    /\ stepOut["publish"] # "none"

\* C18: the cron runner process exits with code 0 if and only if fetch, parse,
\* derive and publish all succeeded; every other outcome exits with code 1.
C18_ExitCode ==
    (orch = "cron") =>
        /\ exitCode \in {-1, 0, 1}
        /\ Ended <=> exitCode # -1
        /\ exitCode = 0 <=> (Ended /\ AllStepsSucceeded)
        /\ exitCode = 1 <=> (Ended /\ ~AllStepsSucceeded)

\* the cron runner has exited 0 after publishing all three files
C18_Witness ==
    /\ orch = "cron" /\ exitCode = 0
    /\ AllStepsSucceeded
    /\ written = {"css", "json", "html"}

\* C19: runPipelineSafe invokes runPipeline at most retries+1 times (3 with the
\* default retries = 2); a further run starts only after a run failed with a
\* message containing one of retryableErrors; every run starts over from the
\* fetch step; and the wrapper always ends by returning a result object.
C19_BoundedRetries ==
    /\ []((orch = "main") =>
            /\ runs <= retries + 1
            /\ retries = PipelineMaxRetries => runs <= 3
            /\ started # <<>> => started[1] = "fetch"
            /\ Ended => safeResult.outcome = "returned"
            /\ step # "idle" => runs = safeAttempt + 1)
    /\ [][(orch = "main" /\ runs >= 1 /\ runs' # runs) =>
             /\ runs' = runs + 1
             /\ runResult.outcome = "thrown"
             /\ \E r \in retryableErrors : Includes(runResult.error, r)
             /\ started' = <<>> /\ stepOut' = NoOut /\ step' = "init"]_vars
    /\ (orch = "main") ~> (Ended /\ safeResult.outcome = "returned")

\* the third and last run under retries = 2 has failed and the wrapper has
\* returned its failure object
C19_Witness ==
    /\ orch = "main" /\ retries = PipelineMaxRetries
    /\ runs = 3 /\ Ended
    /\ safeResult.outcome = "returned" /\ ~safeResult.success
    /\ safeResult.attempts = 3

\* C20: within one run the configuration is read once and every step uses the
\* same configuration value, even if config.json is modified during the run.
C20_OneConfigPerRun ==
    (orch = "cron") =>
        /\ configReads <= 1
        /\ \A m1 \in Modules, m2 \in Modules :
              (configCache[m1] # 0 /\ configCache[m2] # 0) =>
                  configCache[m1] = configCache[m2]

(***************************************************************************)
(* Publisher: properties of one publishToFile call.                        *)
(***************************************************************************)
Published == pubPc = "done"
EnabledFormats == SelectSeq(Formats, LAMBDA f : pubOptions[f])
Range(seq) == {seq[k] : k \in 1..Len(seq)}

\* C15 as the spec words it: publishToFile never throws; every failure,
\* including a failure to create the output directory, is reported in
\* results.errors with success=false.
C15_NeverThrows ==
    Published =>
        /\ pubOutcome = "returned"
        /\ mkdirResult = "EACCES" => (~results.success /\ results.errors # <<>>)

\* C15 (amended): publishToFile reports a failed format write (and a browser
\* environment) in results.errors with success=false and does not throw for
\* it; it throws, returning no results, exactly when the configuration cannot
\* be loaded, when mkdir fails with a code other than EEXIST, or when the
\* colour data has no palette to generate an enabled format from.
C15_ThrowsOnlyBeforeWrites ==
    Published =>
        /\ pubOutcome \in {"returned", "thrown"}
        /\ pubOutcome = "thrown" <=>
              \/ configCache["publish"] = 0
              \/ mkdirResult = "EACCES"
              \/ /\ mkdirResult \in {"ok", "EEXIST"}
                 /\ colorData = "malformed"
                 /\ EnabledFormats # <<>>
        /\ pubOutcome = "returned" =>
              /\ results.success <=> results.errors = <<>>
              /\ \A f \in Range(attempted) \ written : f \in Range(results.errors)

\* mkdir failed with EACCES and the call threw, with nothing in results.errors
C15_Witness ==
    /\ Published
    /\ mkdirResult = "EACCES"
    /\ pubOutcome = "thrown"
    /\ results.errors = <<>>

\* C16: the CSS, JSON and HTML writes are attempted independently: whatever
\* subset of them fails, every enabled format is attempted, outputs holds
\* exactly the formats whose write succeeded, and success is false exactly
\* when at least one write failed.
C16_IndependentWrites ==
    (Published /\ pubOutcome = "returned" /\ mkdirResult # "none") =>
        /\ attempted = EnabledFormats
        /\ pubOptions = DefaultOptions => attempted = Formats
        /\ results.outputs = SelectSeq(attempted, LAMBDA f : f \in written)
        /\ results.errors = SelectSeq(attempted, LAMBDA f : f \notin written)
        /\ results.success <=> Range(attempted) \subseteq written

\* the CSS write failed; JSON and HTML were still written
C16_Witness ==
    /\ Published /\ pubOutcome = "returned"
    /\ attempted = Formats
    /\ results.errors = <<"css">>
    /\ results.outputs = <<"json", "html">>
    /\ ~results.success


(***************************************************************************)
(* Color Deriver: one colour from one six-digit window.                    *)
(***************************************************************************)
SwatchDone == swatch # NoSwatch

SixHexDigits(hex) == Len(hex) = 6 /\ \A i \in 1..6 : hex[i] \in 0..15

\* C21: for every HSL value deriveSingleColor can produce under any configured
\* saturationRange and lightnessRange, hslToHex yields '#' and exactly six
\* hexadecimal digits, each channel being the nearest integer clamped to 0..255.
C21_SixHexDigitsClamped == SwatchDone => SixHexDigits(swatch[1].hex)

DefaultRanges(cfg) == cfg.saturationRange = <<>> /\ cfg.lightnessRange = <<>>

RefChannel(hsl, n) ==
    LET k30 == (30 * n + hsl.h) % 360
        t30 == Max(-30, Min(Min(k30 - 90, 270 - k30), 30))
        a == hsl.s * Min(hsl.l, 100 - hsl.l)
    IN  RoundDiv(255 * (3000 * hsl.l - a * t30), 300000)

RefHex(hsl) ==
    ToHex(RefChannel(hsl, 0)) \o ToHex(RefChannel(hsl, 8)) \o ToHex(RefChannel(hsl, 4))

\* a stored hex against the conversion of the stored hsl: channel by channel
\* within 1 where both are six digits, else digit for digit
HexMatchesHsl(c) ==
    IF SixHexDigits(c.hex) /\ SixHexDigits(RefHex(c.hsl))
    THEN \A j \in 0..2 :
            Abs(ParseHex(SubSeq(c.hex, 2 * j + 1, 2 * j + 2))
                  - RefChannel(c.hsl, (8 * j) % 12)) <= 1
    ELSE c.hex = RefHex(c.hsl)

\* C23: for every swatch of a derived palette and for the accent, converting
\* the stored hsl to RGB and then to hex gives the stored hex, within 1 per
\* channel.
C23_HexAgreesWithHsl ==
    SwatchDone => HexMatchesHsl(swatch[1]) /\ HexMatchesHsl(accentOf[1])

C23_Witness ==
    /\ SwatchDone
    /\ swatch[1].hsl.h = 120 /\ accentOf[1].hsl.h = 300
    /\ swatch[1].hex # accentOf[1].hex
    /\ SixHexDigits(swatch[1].hex)


(***************************************************************************)
(* Color Deriver: what the metadata of the block can change.               *)
(***************************************************************************)
\* C24: metadata never affects the derivation: two deriveColors calls with the
\* same hash and the same configuration but different metadata return the same
\* palette, primaryColor and accentColor; the metadata is only copied through.
C24_MetadataIgnored ==
    Derived =>
        /\ output.metadata = input.metadata
        /\ \A e \in memo :
              (e.key = MemoKey(input, deriveConfig[1])
                    /\ e.out.metadata # output.metadata) =>
                  <<e.out.palette, e.out.primaryColor, e.out.accentColor>>
                      = <<output.palette, output.primaryColor, output.accentColor>>

C24_Witness ==
    /\ Derived /\ Len(output.palette) > 1 /\ output.accentColor # NoColor
    /\ output.metadata = 840000
    /\ \E e \in memo :
          /\ e.key = MemoKey(input, deriveConfig[1])
          /\ e.out.metadata = 0
          /\ e.out.primaryColor = output.primaryColor


(***************************************************************************)
(* Hash Source Client: how long one call can go on.                        *)
(***************************************************************************)
\* what is left of the call: the attempts the two loops still have, then the
\* awaits of the attempt under way
Remaining ==
    LET left == (maxRetries - attempt) * (maxRetries + 1) + (maxRetries - innerAttempt)
    IN  CASE pc = "idle" -> 4 * (maxRetries + 1) * (maxRetries + 1)
          [] pc = "fetching" -> 4 * left + 3
          [] pc = "parsing" -> 4 * left + 2
          [] pc \in {"innerSleep", "outerSleep"} -> 4 * left + 1
          [] OTHER -> 0

\* C25: a fetchLatestBlockHash call always terminates, provided every HTTP
\* attempt completes or times out, and issues at most (maxRetries+1)^2 HTTP
\* requests (16 by default) whatever the responses are: the call is always at
\* an await that settles or has ended, and every step uses up what remains.
C25_BoundedCall ==
    /\ [](/\ requests <= (maxRetries + 1) * (maxRetries + 1)
          /\ requests <= 16
          /\ pc \in {"idle", "fetching", "parsing", "innerSleep", "outerSleep", "done"}
          /\ Remaining >= 0
          /\ (Remaining = 0) = Done)
    /\ [][Remaining' < Remaining]_vars

C25_Witness ==
    /\ Done /\ result = Thrown
    /\ requests = (maxRetries + 1) * (maxRetries + 1)
    /\ sleeps = requests - 1
    /\ attempt = maxRetries /\ innerAttempt = maxRetries


\* C26: after the first HTTP attempt that returns a 2xx response with a
\* parsable JSON body, fetchLatestBlockHash issues no further HTTP request and
\* waits no further backoff delay before returning, whatever failed before.
C26_NoRetryAfterJson ==
    (afterJson # <<>>) =>
        /\ requests = afterJson[1] /\ sleeps = afterJson[2]
        /\ pc = "done" /\ result.outcome = "returned"


(***************************************************************************)
(* Ledger Parser: an array of blocks.                                      *)
(***************************************************************************)
\* C27: for an array input to parseLedger the returned hash and the returned
\* metadata always come from the same block, element 0 of the array, also when
\* element 0 has an invalid hash and a later element has a valid one.
C27_HashAndMetadataOfElementZero ==
    (Parsed /\ rawData.isArray /\ rawData.elems # <<>>) =>
        /\ parseResult.hash = normalizeHash(parseBlockHash(rawData.elems[1]))
        /\ parseResult.metadata = extractBlockMetadata(rawData.elems[1])


(***************************************************************************)
(* Publisher: the shape of every returned result.                          *)
(***************************************************************************)
\* C28: every result publishToFile returns under Node has success true exactly
\* when errors is empty, as many outputs and errors together as there are
\* enabled formats, and outputs listing its types in the order css, json, html
\* with none repeated.
C28_ResultShape ==
    (Published /\ pubOutcome = "returned" /\ env = "node") =>
        /\ results.success <=> (results.errors = <<>>)
        /\ Len(results.outputs) + Len(results.errors)
              = Cardinality({f \in DOMAIN pubOptions : pubOptions[f]})
        /\ \E kept \in SUBSET {"css", "json", "html"} :
              results.outputs = SelectSeq(<<"css", "json", "html">>,
                                          LAMBDA f : f \in kept)

\* css switched off, the JSON write failed, the HTML write succeeded
C28_Witness ==
    /\ Published /\ pubOutcome = "returned" /\ env = "node"
    /\ ~pubOptions["css"] /\ pubOptions["json"] /\ pubOptions["html"]
    /\ results = [success |-> FALSE, outputs |-> <<"html">>, errors |-> <<"json">>]


(***************************************************************************)
(* main.js runPipelineSafe: what the failure result reports.               *)
(***************************************************************************)
\* C29: when runPipelineSafe returns a failure result, its attempts field is
\* the number of times runPipeline was invoked during the call, also when the
\* loop stopped early on an error that is not retryable.
C29_AttemptsCountsRuns ==
    (orch = "main" /\ safeResult.outcome = "returned" /\ ~safeResult.success) =>
        safeResult.attempts = runs


(***************************************************************************)
(* Two runs publishing into the same output directory.                     *)
(***************************************************************************)
BothFinished == \A r \in Runs : racePc[r] \in {"done", "thrown"}
WroteAll(r) == racePc[r] = "done" /\ raceResults[r].outputs = Formats
OutputFiles == {"css", "json", "html"}

\* C30 as the spec words it: when two runs with different palettes publish to
\* the same output directory with overlapping execution, then after both have
\* finished colors.css, colors.json and colors-preview.html all hold content
\* produced by the same run.
C30_OneRunInAllFiles ==
    (BothFinished /\ overlapped /\ \A r \in Runs : WroteAll(r)) =>
        \E r \in Runs : \A f \in OutputFiles : files[f] = r

\* C30 (amended): the three files are sure to hold the content of one run, the
\* later one, only when the publishToFile calls of the two runs do not overlap
\* and every write of the later call succeeds.  When the calls overlap, each
\* file on its own holds the content of a run that reported writing it, or
\* bytes of both runs if both were writing it at once, and the three files can
\* come from different runs.
C30_LaterRunWinsWithoutOverlap ==
    /\ (BothFinished /\ ~overlapped /\ WroteAll(raceOrder[2])) =>
          \A f \in OutputFiles : files[f] = raceOrder[2]
    /\ \A f \in OutputFiles :
          /\ files[f] \in Runs => f \in Range(raceResults[files[f]].outputs)
          /\ files[f] = Mixed => f \in clashed
          /\ files[f] = NoFile => \A r \in Runs : f \notin Range(raceResults[r].outputs)

\* run "A" wrote its three files, then run "B" began and wrote its own
C30_Witness ==
    /\ BothFinished /\ ~overlapped
    /\ raceOrder = <<"A", "B">>
    /\ WroteAll("A") /\ WroteAll("B")
    /\ \A f \in OutputFiles : files[f] = "B"

====
